---- MODULE Spec2Model ----
(***************************************************************************)
(* A model of the Polygon market-data tool server: the eight endpoint      *)
(* adapters of tools/ohlcv_tools.py and tools/technical_indicator_tools.py *)
(* (credential check, request construction, one HTTP GET, classification   *)
(* of the upstream outcome).                                               *)
(*                                                                         *)
(* Python values are tagged records; every tag has field names of its own, *)
(* so two values of different Python types are simply unequal.  A text     *)
(* (Python str) is a sequence of pieces: [lit |-> s] a literal, [dec |-> n]*)
(* the decimal rendering of an integer, [doc |-> v] the JSON serialisation *)
(* of value v.  The empty sequence is the empty string.                    *)
(***************************************************************************)
EXTENDS Integers, Sequences, FiniteSets, TLC

VARIABLES
  env,       \* the POLYGON_API_KEY environment variable
  ohlcvKey,  \* POLYGON_API_KEY of tools.ohlcv_tools
  indKey,    \* POLYGON_API_KEY of tools.technical_indicator_tools
  call,      \* the invocation in progress
  reg,       \* the registration loop of the entry point
  calls,     \* invocations in progress side by side
  clients    \* the HTTP clients opened by those invocations

vars == <<env, ohlcvKey, indKey, call, reg, calls, clients>>

----------------------------------------------------------------------------
(* Bounds of the model *)

\* longest `results` list an upstream body carries
MaxResults == 2

----------------------------------------------------------------------------
(* Python values *)

PyNone == [t |-> "none"]
PyBool(b) == [t |-> "bool", b |-> b]
PyInt(n) == [t |-> "int", n |-> n]
PyStr(s) == [t |-> "str", s |-> s]
PyList(xs) == [t |-> "list", items |-> xs]
PyDict(f) == [t |-> "dict", f |-> f]

\* marks a key that a dict does not hold (never a value inside a dict)
Absent == [t |-> "absent"]

EmptyText == << >>
L(s) == <<[lit |-> s]>>
Dec(n) == <<[dec |-> n]>>
Doc(v) == <<[doc |-> v]>>
Str(s) == PyStr(L(s))

\* bool(v): Python truthiness, as used by `not x` and `x or y`
Truthy(v) ==
  CASE v.t = "none" -> FALSE
    [] v.t = "bool" -> v.b
    [] v.t = "int" -> v.n # 0
    [] v.t = "str" -> Len(v.s) > 0
    [] v.t = "list" -> Len(v.items) > 0
    [] v.t = "dict" -> DOMAIN v.f # {}

\* str(v) for the values the adapters format
PyStrOf(v) ==
  CASE v.t = "none" -> L("None")
    [] v.t = "bool" -> IF v.b THEN L("True") ELSE L("False")
    [] v.t = "int" -> Dec(v.n)
    [] v.t = "str" -> v.s

LowerLit(s) ==
  CASE s = "True" -> "true"
    [] s = "False" -> "false"
    [] s = "None" -> "none"
    [] OTHER -> s

\* str.lower(): digits and lower-case literals are left as they are
Lower(s) ==
  [i \in 1..Len(s) |->
     IF "lit" \in DOMAIN s[i] THEN [lit |-> LowerLit(s[i].lit)] ELSE s[i]]

\* d.get(k) and d.get(k, default) on a dict d
Get(d, k) == IF k \in DOMAIN d.f THEN d.f[k] ELSE PyNone
GetOr(d, k, default) == IF k \in DOMAIN d.f THEN d.f[k] ELSE default

\* the outcome of evaluating an expression: a value, or a raised exception
Ok(v) == [ok |-> TRUE, v |-> v]
Raise(e) == [ok |-> FALSE, exc |-> e]
Exc(type, msg) == [type |-> type, msg |-> msg]

\* v > 0
Gt0(v) ==
  IF v.t = "int" THEN Ok(v.n > 0)
  ELSE Raise(Exc("TypeError", L("'>' not supported")))

\* first character of a literal text
CharAt0(s) == IF s = L("ab") THEN L("a") ELSE s

\* v[0]
Subscript0(v) ==
  CASE v.t = "list" ->
         IF Len(v.items) > 0 THEN Ok(v.items[1])
         ELSE Raise(Exc("IndexError", L("list index out of range")))
    [] v.t = "str" ->
         IF Len(v.s) > 0 THEN Ok(PyStr(CharAt0(v.s)))
         ELSE Raise(Exc("IndexError", L("string index out of range")))
    [] v.t = "dict" -> Raise(Exc("KeyError", Dec(0)))
    [] OTHER -> Raise(Exc("TypeError", L("object is not subscriptable")))

----------------------------------------------------------------------------
(* Module-level configuration *)

BASE_URL == L("https://api.polygon.io")

\* os.environ.get("POLYGON_API_KEY"): unset, set to the empty string, or a key
EnvValues == {PyNone, PyStr(EmptyText), Str("KEY1")}

\* `not POLYGON_API_KEY` with a plausible slip: only an unset variable counts
CredentialMissing_NoneOnly(key) == key = PyNone

\* `if not POLYGON_API_KEY`
CredentialMissing(key) == ~Truthy(key)

OhlcvAdapters ==
  {"get_previous_day_bar", "get_custom_bars", "get_daily_market_summary",
   "get_daily_ticker_summary"}
IndicatorAdapters == {"get_sma", "get_ema", "get_macd", "get_rsi"}
Adapters == OhlcvAdapters \cup IndicatorAdapters

\* the module-level POLYGON_API_KEY the adapter reads
\* a credential looked up in the environment at each call
KeyOf_environ(adapter) == env

KeyOf(adapter) == IF adapter \in OhlcvAdapters THEN ohlcvKey ELSE indKey

----------------------------------------------------------------------------
(* Inputs of the adapters *)

OptBool == {PyBool(TRUE), PyBool(FALSE), PyNone}
Tickers == {Str("AAPL")}
Dates == {Str("2023-01-09")}

PrevDayBarArgs == [ticker : Tickers, adjusted : OptBool]

CustomBarsArgs ==
  [ticker : Tickers, multiplier : {PyInt(1)}, timespan : {Str("day")},
   from_date : {Str("2023-01-05")}, to_date : Dates, adjusted : OptBool,
   sort : {Str("asc"), PyNone}, limit : {PyInt(5000), PyNone}]

DailyMarketSummaryArgs ==
  [date : Dates, adjusted : OptBool, include_otc : OptBool]

DailyTickerSummaryArgs == [ticker : Tickers, date : Dates, adjusted : OptBool]

\* get_sma, get_ema, get_rsi
WindowIndicatorArgs ==
  [stockTicker : Tickers, timestamp : {PyNone, Str("2023-01-05")},
   timestamp_gte : {PyNone}, timestamp_gt : {PyNone},
   timestamp_lte : {PyNone}, timestamp_lt : {PyNone},
   timespan : {Str("day")}, adjusted : OptBool,
   window : {PyInt(50), PyNone}, series_type : {Str("close")},
   expand_underlying : {PyBool(FALSE)}, order : {Str("desc")},
   limit : {PyInt(10)}]

MacdArgs ==
  [stockTicker : Tickers, timestamp : {PyNone, Str("2023-01-05")},
   timestamp_gte : {PyNone}, timestamp_gt : {PyNone},
   timestamp_lte : {PyNone}, timestamp_lt : {PyNone},
   timespan : {Str("day")}, adjusted : OptBool,
   short_window : {PyInt(12), PyNone}, long_window : {PyInt(26)},
   signal_window : {PyInt(9)}, series_type : {Str("close")},
   expand_underlying : {PyBool(FALSE)}, order : {Str("desc")},
   limit : {PyInt(10)}]

ArgsOf(adapter) ==
  CASE adapter = "get_previous_day_bar" -> PrevDayBarArgs
    [] adapter = "get_custom_bars" -> CustomBarsArgs
    [] adapter = "get_daily_market_summary" -> DailyMarketSummaryArgs
    [] adapter = "get_daily_ticker_summary" -> DailyTickerSummaryArgs
    [] adapter = "get_macd" -> MacdArgs
    [] OTHER -> WindowIndicatorArgs

\* wider argument sets, for the requests the adapters build
OptDate == {PyNone, Str("2023-01-05")}

CustomBarsRequestArgs ==
  [ticker : Tickers, multiplier : {PyInt(1)}, timespan : {Str("day")},
   from_date : {Str("2023-01-05")}, to_date : Dates, adjusted : OptBool,
   sort : {Str("asc"), Str("desc"), PyNone}, limit : {PyInt(5000), PyNone}]

WindowIndicatorRequestArgs ==
  [stockTicker : Tickers, timestamp : OptDate, timestamp_gte : OptDate,
   timestamp_gt : {PyNone}, timestamp_lte : {PyNone}, timestamp_lt : OptDate,
   timespan : {Str("day"), PyNone}, adjusted : OptBool,
   window : {PyInt(50), PyNone}, series_type : {Str("close")},
   expand_underlying : OptBool, order : {Str("desc")},
   limit : {PyInt(10), PyNone}]

MacdRequestArgs ==
  [stockTicker : Tickers, timestamp : OptDate, timestamp_gte : OptDate,
   timestamp_gt : {PyNone}, timestamp_lte : {PyNone}, timestamp_lt : OptDate,
   timespan : {Str("day"), PyNone}, adjusted : OptBool,
   short_window : {PyInt(12), PyNone}, long_window : {PyInt(26)},
   signal_window : {PyInt(9), PyNone}, series_type : {Str("close")},
   expand_underlying : OptBool, order : {Str("desc")},
   limit : {PyInt(10), PyNone}]

RequestArgsOf(adapter) ==
  CASE adapter = "get_previous_day_bar" -> PrevDayBarArgs
    [] adapter = "get_custom_bars" -> CustomBarsRequestArgs
    [] adapter = "get_daily_market_summary" -> DailyMarketSummaryArgs
    [] adapter = "get_daily_ticker_summary" -> DailyTickerSummaryArgs
    [] adapter = "get_macd" -> MacdRequestArgs
    [] OTHER -> WindowIndicatorRequestArgs

----------------------------------------------------------------------------
(* Request construction *)

\* a dict literal followed by conditional insertions: Absent marks "not set"
DictOf(cand) == [k \in {k \in DOMAIN cand : cand[k] # Absent} |-> cand[k]]

\* {k: v for k, v in params.items() if v is not None}
RemoveNone(d) == [k \in {k \in DOMAIN d : d[k] # PyNone} |-> d[k]]

\* str(x), the call of lower() forgotten
StrNotLowered(x) == PyStr(PyStrOf(x))

\* str(x).lower()
LowerStr(x) == PyStr(Lower(PyStrOf(x)))

NoHeaders == << >>

get_previous_day_bar_request(args, key) ==
  [url |-> BASE_URL \o L("/v2/aggs/ticker/") \o PyStrOf(args.ticker)
             \o L("/prev"),
   params |-> [adjusted |-> LowerStr(args.adjusted), apiKey |-> key],
   headers |-> NoHeaders]

get_custom_bars_request(args, key) ==
  [url |-> BASE_URL \o L("/v2/aggs/ticker/") \o PyStrOf(args.ticker)
             \o L("/range/") \o PyStrOf(args.multiplier) \o L("/")
             \o PyStrOf(args.timespan) \o L("/") \o PyStrOf(args.from_date)
             \o L("/") \o PyStrOf(args.to_date),
   params |-> [adjusted |-> LowerStr(args.adjusted), sort |-> args.sort,
               limit |-> PyStr(PyStrOf(args.limit)), apiKey |-> key],
   headers |-> NoHeaders]

get_daily_market_summary_request(args, key) ==
  [url |-> BASE_URL \o L("/v2/aggs/grouped/locale/us/market/stocks/")
             \o PyStrOf(args.date),
   params |-> [adjusted |-> LowerStr(args.adjusted),
               includeOTC |-> LowerStr(args.include_otc), apiKey |-> key],
   headers |-> NoHeaders]

get_daily_ticker_summary_request(args, key) ==
  [url |-> BASE_URL \o L("/v1/open-close/") \o PyStrOf(args.ticker) \o L("/")
             \o PyStrOf(args.date),
   params |-> [adjusted |-> LowerStr(args.adjusted), apiKey |-> key],
   headers |-> NoHeaders]

\* `if timestamp: params["timestamp"] = timestamp`, and its four siblings
TimestampFilters(args) ==
  LET opt(v) == IF Truthy(v) THEN v ELSE Absent
  IN  ("timestamp" :> opt(args.timestamp))
      @@ ("timestamp.gte" :> opt(args.timestamp_gte))
      @@ ("timestamp.gt" :> opt(args.timestamp_gt))
      @@ ("timestamp.lte" :> opt(args.timestamp_lte))
      @@ ("timestamp.lt" :> opt(args.timestamp_lt))

\* the params dict of get_sma
get_sma_params(args) ==
  RemoveNone(DictOf(
    [timespan |-> args.timespan, adjusted |-> LowerStr(args.adjusted),
     window |-> args.window, series_type |-> args.series_type,
     expand_underlying |-> LowerStr(args.expand_underlying),
     order |-> args.order, limit |-> args.limit]
    @@ TimestampFilters(args)))

\* a copy of the params dict that lost its expand_underlying entry
get_ema_params_no_expand(args) ==
  RemoveNone(DictOf(
    [timespan |-> args.timespan, adjusted |-> LowerStr(args.adjusted),
     window |-> args.window, series_type |-> args.series_type,
     order |-> args.order, limit |-> args.limit]
    @@ TimestampFilters(args)))

\* the params dict of get_ema
get_ema_params(args) ==
  RemoveNone(DictOf(
    [timespan |-> args.timespan, adjusted |-> LowerStr(args.adjusted),
     window |-> args.window, series_type |-> args.series_type,
     expand_underlying |-> LowerStr(args.expand_underlying),
     order |-> args.order, limit |-> args.limit]
    @@ TimestampFilters(args)))

\* the params dict of get_rsi
get_rsi_params(args) ==
  RemoveNone(DictOf(
    [timespan |-> args.timespan, adjusted |-> LowerStr(args.adjusted),
     window |-> args.window, series_type |-> args.series_type,
     expand_underlying |-> LowerStr(args.expand_underlying),
     order |-> args.order, limit |-> args.limit]
    @@ TimestampFilters(args)))

\* the params dict of get_macd
get_macd_params(args) ==
  RemoveNone(DictOf(
    [timespan |-> args.timespan, adjusted |-> LowerStr(args.adjusted),
     short_window |-> args.short_window, long_window |-> args.long_window,
     signal_window |-> args.signal_window, series_type |-> args.series_type,
     expand_underlying |-> LowerStr(args.expand_underlying),
     order |-> args.order, limit |-> args.limit]
    @@ TimestampFilters(args)))

\* path = f"/v1/indicators/<segment>/{stockTicker}"
IndicatorSegment(adapter) ==
  CASE adapter = "get_sma" -> "sma"
    [] adapter = "get_ema" -> "ema"
    [] adapter = "get_macd" -> "macd"
    [] adapter = "get_rsi" -> "rsi"

indicator_path(adapter, args) ==
  L("/v1/indicators/") \o L(IndicatorSegment(adapter)) \o L("/")
    \o PyStrOf(args.stockTicker)

indicator_params(adapter, args) ==
  CASE adapter = "get_sma" -> get_sma_params(args)
    [] adapter = "get_ema" -> get_ema_params(args)
    [] adapter = "get_macd" -> get_macd_params(args)
    [] adapter = "get_rsi" -> get_rsi_params(args)

\* the GET of _fetch_indicator_data sent without its headers
fetch_indicator_request_no_headers(indicator_path_, params, key) ==
  [url |-> BASE_URL \o indicator_path_,
   params |-> params,
   headers |-> NoHeaders]

\* the GET of _fetch_indicator_data: URL, params, Authorization header
fetch_indicator_request(indicator_path_, params, key) ==
  [url |-> BASE_URL \o indicator_path_,
   params |-> params,
   headers |-> [Authorization |-> PyStr(L("Bearer ") \o PyStrOf(key))]]

BuildRequest(adapter, args, key) ==
  CASE adapter = "get_previous_day_bar" ->
         get_previous_day_bar_request(args, key)
    [] adapter = "get_custom_bars" -> get_custom_bars_request(args, key)
    [] adapter = "get_daily_market_summary" ->
         get_daily_market_summary_request(args, key)
    [] adapter = "get_daily_ticker_summary" ->
         get_daily_ticker_summary_request(args, key)
    [] OTHER ->
         fetch_indicator_request(indicator_path(adapter, args),
                                 indicator_params(adapter, args), key)

----------------------------------------------------------------------------
(* What the upstream can answer *)

StatusCodes == {200, 404, 500}

Bar == PyDict([T |-> Str("AAPL"), c |-> PyInt(150)])
Bar2 == PyDict([T |-> Str("AAPL"), c |-> PyInt(151)])

\* a first element of `results`: a bar, or any other JSON value
Items == {Bar, PyInt(7), PyNone, Str("x"), PyList(<< >>)}

\* lists of up to MaxResults elements: any first element, then bars
ResultLists ==
  {<< >>} \cup
  {<<first>> \o [i \in 1..n |-> Bar2] : first \in Items, n \in 0..(MaxResults - 1)}

StatusVals == {Absent, Str("OK"), Str("ERROR"), Str("DELAYED")}
ErrorVals ==
  {Absent, Str("Unknown ticker symbol: X"), PyStr(EmptyText), PyNone}
MessageVals == {Absent, Str("Data not found."), PyNone}
ResultsVals ==
  {Absent, PyNone, Str("ab")} \cup {PyList(xs) : xs \in ResultLists}
ResultsCountVals ==
  {Absent, PyNone, Str("1")} \cup {PyInt(n) : n \in 0..MaxResults}

Envelope(st, er, ms, rs, rc) ==
  PyDict(DictOf([status |-> st, error |-> er, message |-> ms,
                 results |-> rs, resultsCount |-> rc]))

\* JSON objects: every status with every error/message, and every status
\* with every results/resultsCount
JsonObjects ==
  {Envelope(st, er, ms, Absent, Absent) :
     st \in StatusVals, er \in ErrorVals, ms \in MessageVals}
  \cup
  {Envelope(st, Absent, Absent, rs, rc) :
     st \in StatusVals, rs \in ResultsVals, rc \in ResultsCountVals}

\* JSON documents that are not objects
JsonScalars == {PyNone, PyInt(7), Str("maintenance"), PyList(<<Bar>>)}

\* response bodies: a JSON document, or text that is no JSON
Texts ==
  {Doc(v) : v \in JsonObjects \cup JsonScalars}
  \cup {L("<html>Bad Gateway</html>"), EmptyText}

Responses == [status_code : StatusCodes, text : Texts]

\* httpx.RequestError subclasses raised by client.get; str(e) may be empty
RequestErrorTypes == {"ConnectError", "ConnectTimeout"}
RequestErrors ==
  {Exc(ty, m) : ty \in RequestErrorTypes,
                m \in {EmptyText, L("All connection attempts failed")}}

\* the outcome of `await client.get(...)`
Outcomes ==
  {[net |-> "response", response |-> r] : r \in Responses}
  \cup {[net |-> "failure", exc |-> e] : e \in RequestErrors}

IsRequestError(e) == e.type \in RequestErrorTypes
IsHTTPStatusError(e) == e.type = "HTTPStatusError"

\* a status check that lets every response through
raise_for_status_never(response) == Ok(response)

\* response.raise_for_status()
raise_for_status(response) ==
  IF response.status_code >= 400
  THEN Raise([type |-> "HTTPStatusError",
              msg |-> L("Client or server error ") \o Dec(response.status_code),
              response |-> response])
  ELSE Ok(response)

\* response.json()
json(response) ==
  IF Len(response.text) = 1 /\ "doc" \in DOMAIN response.text[1]
  THEN Ok(response.text[1].doc)
  ELSE Raise(Exc("JSONDecodeError", L("Expecting value")))

\* calling .get on a decoded body that is no dict
NoGet == Raise(Exc("AttributeError", L("object has no attribute 'get'")))

----------------------------------------------------------------------------
(* tools/ohlcv_tools.py: classification of the upstream outcome *)

ConfigErrorOhlcv == PyDict([error |-> Str("Polygon API key is not configured.")])
GenericFailure == Str("Failed to fetch data from Polygon API")
UnexpectedError == PyDict([error |-> Str("An unexpected error occurred.")])

\* {"error": data.get("error") or data.get("message", <generic>), "details": data}
ohlcv_error_result(data) ==
  PyDict([error |-> IF Truthy(Get(data, "error")) THEN Get(data, "error")
                    ELSE GetOr(data, "message", GenericFailure),
          details |-> data])

\* a slip that hands back the whole envelope instead of its first bar
first_bar_envelope(data) == Ok(data)

\* return data["results"][0]
first_bar(data) == Subscript0(data.f["results"])

\* an empty result reported under the `error` key
no_data_error(args) ==
  PyDict([error |-> PyStr(L("No previous day bar data found for ")
                          \o PyStrOf(args.ticker) \o L("."))])

\* {"message": f"No previous day bar data found for {ticker}."}
no_data_message(args) ==
  PyDict([message |-> PyStr(L("No previous day bar data found for ")
                            \o PyStrOf(args.ticker) \o L("."))])

\* the if / elif / else on the decoded body of get_previous_day_bar
get_previous_day_bar_classify(args, data) ==
  IF data.t # "dict" THEN NoGet
  ELSE
    LET statusOK == Get(data, "status") = Str("OK")
        noCount == Raise(Exc("KeyError", L("'resultsCount'")))
        \* elif data.get("status") == "OK" and data["resultsCount"] == 0
        second ==
          IF statusOK
          THEN IF "resultsCount" \notin DOMAIN data.f THEN noCount
               ELSE IF data.f["resultsCount"] = PyInt(0)
                    THEN Ok(no_data_message(args))
                    ELSE Ok(ohlcv_error_result(data))
          ELSE Ok(ohlcv_error_result(data))
    IN
      \* if data.get("status") == "OK" and "results" in data
      \*    and data["resultsCount"] > 0
      IF statusOK /\ "results" \in DOMAIN data.f
      THEN IF "resultsCount" \notin DOMAIN data.f THEN noCount
           ELSE LET positive == Gt0(data.f["resultsCount"])
                IN  IF ~positive.ok THEN positive
                    ELSE IF positive.v THEN first_bar(data)
                    ELSE second
      ELSE second

\* the body of the try block, from the response on
get_previous_day_bar_try(args, response) ==
  LET checked == raise_for_status(response)
      data == json(response)
  IN  IF ~checked.ok THEN checked
      ELSE IF ~data.ok THEN data
      ELSE get_previous_day_bar_classify(args, data.v)

\* a body handed back without its `status` entry
full_body_try_without_status(response) ==
  LET data == json(response)
  IN  IF ~data.ok THEN data
      ELSE IF data.v.t # "dict" THEN NoGet
      ELSE Ok(PyDict([k \in DOMAIN data.v.f \ {"status"} |-> data.v.f[k]]))

\* get_custom_bars and get_daily_market_summary: full body when status is OK
full_body_try(response) ==
  LET checked == raise_for_status(response)
      data == json(response)
  IN  IF ~checked.ok THEN checked
      ELSE IF ~data.ok THEN data
      ELSE IF data.v.t # "dict" THEN NoGet
      ELSE IF Get(data.v, "status") = Str("OK") THEN Ok(data.v)
      ELSE Ok(ohlcv_error_result(data.v))

\* the handlers without the final `except Exception`
ohlcv_except_no_catch_all(e) ==
  IF IsHTTPStatusError(e)
  THEN Ok(PyDict([error |-> PyStr(L("Polygon API error: ")
                                  \o Dec(e.response.status_code)),
                  message |-> PyStr(e.response.text)]))
  ELSE IF IsRequestError(e)
  THEN Ok(PyDict([error |-> Str("Failed to connect to Polygon API"),
                  message |-> PyStr(e.msg)]))
  ELSE Raise(e)

\* except httpx.HTTPStatusError / httpx.RequestError / Exception
ohlcv_except(e) ==
  IF IsHTTPStatusError(e)
  THEN Ok(PyDict([error |-> PyStr(L("Polygon API error: ")
                                  \o Dec(e.response.status_code)),
                  message |-> PyStr(e.response.text)]))
  ELSE IF IsRequestError(e)
  THEN Ok(PyDict([error |-> Str("Failed to connect to Polygon API"),
                  message |-> PyStr(e.msg)]))
  ELSE Ok(UnexpectedError)

\* get_daily_ticker_summary: the body is decoded before the status is checked
get_daily_ticker_summary_try(response) ==
  LET data == json(response)
      checked == raise_for_status(response)
  IN  IF ~data.ok THEN data
      ELSE IF ~checked.ok THEN checked
      ELSE IF data.v.t # "dict" THEN NoGet
      ELSE IF Get(data.v, "status") = Str("OK") THEN Ok(data.v)
      ELSE IF Get(data.v, "status") = Str("ERROR")
              \/ "message" \in DOMAIN data.v.f
      THEN Ok(PyDict([error |-> GetOr(data.v, "message", GenericFailure),
                      details |-> data.v]))
      ELSE Ok(PyDict([error |-> Str("Failed to fetch data from Polygon API or unexpected response format"),
                      details |-> data.v]))

\* the handlers of get_daily_ticker_summary; the HTTPStatusError handler
\* decodes the body again and falls back to the raw text
get_daily_ticker_summary_except(e) ==
  IF IsHTTPStatusError(e)
  THEN LET error_data == json(e.response)
           code == PyStr(L("Polygon API error: ")
                         \o Dec(e.response.status_code))
       IN  IF error_data.ok /\ error_data.v.t = "dict"
           THEN Ok(PyDict([error |-> code,
                           message |-> GetOr(error_data.v, "message",
                                             PyStr(e.response.text)),
                           details |-> error_data.v]))
           ELSE Ok(PyDict([error |-> code,
                           message |-> PyStr(e.response.text)]))
  ELSE IF IsRequestError(e)
  THEN Ok(PyDict([error |-> Str("Failed to connect to Polygon API"),
                  message |-> PyStr(e.msg)]))
  ELSE Ok(UnexpectedError)

----------------------------------------------------------------------------
(* tools/technical_indicator_tools.py: _fetch_indicator_data *)

ConfigErrorIndicator == PyDict([error |-> Str("POLYGON_API_KEY not set")])

\* response.raise_for_status(); return response.json()
fetch_indicator_try(response) ==
  LET checked == raise_for_status(response)
  IN  IF ~checked.ok THEN checked ELSE json(response)

\* except httpx.HTTPStatusError / Exception
fetch_indicator_except(e) ==
  IF IsHTTPStatusError(e)
  THEN Ok(PyDict([error |-> PyStr(L("API request failed with status ")
                                  \o Dec(e.response.status_code) \o L(": ")
                                  \o e.response.text)]))
  ELSE Ok(PyDict([error |-> PyStr(L("An unexpected error occurred: ")
                                  \o e.msg)]))

----------------------------------------------------------------------------
(* One invocation, from the awaited GET to the return *)

ConfigError(adapter) ==
  IF adapter \in OhlcvAdapters THEN ConfigErrorOhlcv ELSE ConfigErrorIndicator

TryBody(adapter, args, response) ==
  CASE adapter = "get_previous_day_bar" ->
         get_previous_day_bar_try(args, response)
    [] adapter \in {"get_custom_bars", "get_daily_market_summary"} ->
         full_body_try(response)
    [] adapter = "get_daily_ticker_summary" ->
         get_daily_ticker_summary_try(response)
    [] OTHER -> fetch_indicator_try(response)

Except(adapter, e) ==
  CASE adapter = "get_daily_ticker_summary" ->
         get_daily_ticker_summary_except(e)
    [] adapter \in OhlcvAdapters \ {"get_daily_ticker_summary"} ->
         ohlcv_except(e)
    [] OTHER -> fetch_indicator_except(e)

\* try: ... except ...: what the adapter returns, or raises, for an outcome
AfterGet(adapter, args, outcome) ==
  LET tried == IF outcome.net = "failure" THEN Raise(outcome.exc)
               ELSE TryBody(adapter, args, outcome.response)
  IN  IF tried.ok THEN tried ELSE Except(adapter, tried.exc)

----------------------------------------------------------------------------
(* The process: one invocation at a time *)

NoOutcome == [net |-> "none"]
Idle == [pc |-> "idle"]

\* a transport that re-sends a request once
client_get_with_retry(requests, request) == requests \o <<request, request>>

\* await client.get(url, params=params): the request goes out, once
client_get(requests, request) == Append(requests, request)

\* the adapter is called with arguments of ArgSpace: credential check,
\* request construction, and the GET is issued on a client opened for this
\* call
Entered(adapter, args) ==
  IF CredentialMissing(KeyOf(adapter))
  THEN [pc |-> "done", adapter |-> adapter, args |-> args,
        requests |-> << >>, client |-> "none", outcome |-> NoOutcome,
        out |-> Ok(ConfigError(adapter))]
  ELSE [pc |-> "awaiting", adapter |-> adapter, args |-> args,
        requests |-> client_get(<< >>,
                       BuildRequest(adapter, args, KeyOf(adapter))),
        client |-> "open", outcome |-> NoOutcome,
        out |-> Ok(PyNone)]

InvokeWith(ArgSpace) ==
  /\ call.pc = "idle"
  /\ \E adapter \in Adapters : \E args \in ArgSpace[adapter] :
       call' = Entered(adapter, args)
  /\ UNCHANGED <<env, ohlcvKey, indKey, reg, calls, clients>>

Invoke == InvokeWith([adapter \in Adapters |-> ArgsOf(adapter)])

\* the completion of the GET with one of the outcomes of OutcomeSet: the
\* adapter classifies it, leaves the `async with` block and returns
\* a client that is closed only when the GET brought a response
client_aexit_on_response(outcome) ==
  IF outcome.net = "response" THEN "closed" ELSE "open"

\* leaving `async with httpx.AsyncClient() as client`, by a return or by an
\* exception: the context manager closes the client
client_aexit(outcome) == "closed"

Finished(c, outcome) ==
  [c EXCEPT !.pc = "done", !.client = client_aexit(outcome),
            !.outcome = outcome,
            !.out = AfterGet(c.adapter, c.args, outcome)]

RespondWith(OutcomeSet) ==
  /\ call.pc = "awaiting"
  /\ \E outcome \in OutcomeSet : call' = Finished(call, outcome)
  /\ UNCHANGED <<env, ohlcvKey, indKey, reg, calls, clients>>

\* the GET completes (a response, or a transport failure)
Respond == RespondWith(Outcomes)

\* the hosting runtime takes the result
Return ==
  /\ call.pc = "done"
  /\ call' = Idle
  /\ UNCHANGED <<env, ohlcvKey, indKey, reg, calls, clients>>

\* the adapters are called directly, no entry point has run
NoServer == [pc |-> "none"]

\* the invocations side by side
Slots == {"a", "b"}
AllIdle == [slot \in Slots |-> Idle]

\* both tool modules read the variable when they are imported
Init ==
  /\ env \in EnvValues
  /\ ohlcvKey = env
  /\ indKey = env
  /\ call = Idle
  /\ reg = NoServer
  /\ calls = AllIdle
  /\ clients = << >>

Next == Invoke \/ Respond \/ Return

Spec == Init /\ [][Next]_vars

\* the same process seen from its requests: every argument combination of
\* the wider sets, against an upstream that cannot be reached
InvokeAny == InvokeWith([adapter \in Adapters |-> RequestArgsOf(adapter)])

Unreachable ==
  RespondWith({[net |-> "failure", exc |-> e] : e \in RequestErrors})

NextRequests == InvokeAny \/ Unreachable \/ Return

SpecRequests == Init /\ [][NextRequests]_vars

----------------------------------------------------------------------------
(* Invocations side by side: the hosting runtime awaits the adapters on one
   event loop, so a second call may start while the first awaits its GET *)

MaxClients == 3

TimestampInputs ==
  {"timestamp", "timestamp_gte", "timestamp_gt", "timestamp_lte",
   "timestamp_lt"}

\* calls that differ in the adapter, in `adjusted` and in the other booleans
ConcurrentArgsOf(adapter) ==
  {a \in ArgsOf(adapter) :
     /\ a.adjusted.t = "bool"
     /\ \A k \in DOMAIN a \ {"adjusted"} :
          (k \in TimestampInputs) <=> (a[k] = PyNone)}

\* one outcome for each way out of the `async with` block: data returned, a
\* body that does not decode, an HTTP error status, a transport failure
ConcurrentOutcomes ==
  {[net |-> "response", response |-> r] :
     r \in [status_code : {200, 404},
            text : {Doc(Envelope(Str("OK"), Absent, Absent,
                                 PyList(<<Bar>>), PyInt(1))),
                    L("<html>Bad Gateway</html>")}]}
  \cup {[net |-> "failure", exc |-> Exc("ConnectError", EmptyText)]}

\* httpx.AsyncClient(): each invocation that passes the credential check
\* constructs a client of its own
AsyncClient(cl, slot, entered) ==
  IF entered.client = "open"
  THEN Append(cl, [owner |-> slot, state |-> "open"])
  ELSE cl

\* a completion that reaches every invocation awaiting a GET
deliver_to_all(cs, slot, outcome) ==
  [s \in DOMAIN cs |->
     IF cs[s].pc = "awaiting" THEN Finished(cs[s], outcome) ELSE cs[s]]

\* the completion of a GET resumes the invocation that awaited it
deliver(cs, slot, outcome) ==
  [cs EXCEPT ![slot] = Finished(cs[slot], outcome)]

ConcurrentInvoke ==
  /\ Len(clients) < MaxClients
  /\ \E slot \in Slots :
       /\ calls[slot].pc = "idle"
       /\ \E adapter \in Adapters : \E args \in ConcurrentArgsOf(adapter) :
            /\ calls' = [calls EXCEPT ![slot] = Entered(adapter, args)]
            /\ clients' = AsyncClient(clients, slot, Entered(adapter, args))
  /\ UNCHANGED <<env, ohlcvKey, indKey, call, reg>>

ConcurrentRespond ==
  /\ \E slot \in Slots :
       /\ calls[slot].pc = "awaiting"
       /\ \E outcome \in ConcurrentOutcomes :
            /\ calls' = deliver(calls, slot, outcome)
            /\ clients' =
                 [id \in DOMAIN clients |->
                    IF clients[id].owner = slot /\ clients[id].state = "open"
                    THEN [clients[id] EXCEPT !.state = client_aexit(outcome)]
                    ELSE clients[id]]
  /\ UNCHANGED <<env, ohlcvKey, indKey, call, reg>>

ConcurrentReturn ==
  /\ \E slot \in Slots :
       /\ calls[slot].pc = "done"
       /\ calls' = [calls EXCEPT ![slot] = Idle]
  /\ UNCHANGED <<env, ohlcvKey, indKey, call, reg, clients>>

NextConcurrent == ConcurrentInvoke \/ ConcurrentRespond \/ ConcurrentReturn

SpecConcurrent == Init /\ [][NextConcurrent]_vars

----------------------------------------------------------------------------
(* Registration of the tools with the hosting runtime *)

\* a tool definition: a dict with the entries "tool_name" and "description"
ToolDef(name) ==
  PyDict([tool_name |-> Str(name), description |-> Str("description")])

ALL_TOOL_DEFS ==
  <<ToolDef("get_previous_day_bar"), ToolDef("get_custom_bars"),
    ToolDef("get_daily_market_summary"), ToolDef("get_daily_ticker_summary")>>

ALL_INDICATOR_TOOL_DEFS ==
  <<ToolDef("get_sma"), ToolDef("get_ema"), ToolDef("get_macd"),
    ToolDef("get_rsi")>>

\* the names that TOOL_HANDLERS and INDICATOR_TOOL_HANDLERS map to handlers
TOOL_HANDLERS == OhlcvAdapters
INDICATOR_TOOL_HANDLERS == IndicatorAdapters

\* the four places that hold a registration loop
Loops ==
  {"server", "main", "ohlcv_register_tools", "indicator_register_tools"}

DefsOf(loop) ==
  IF loop = "indicator_register_tools"
  THEN ALL_INDICATOR_TOOL_DEFS ELSE ALL_TOOL_DEFS

HandlersOf(loop) ==
  IF loop = "indicator_register_tools"
  THEN INDICATOR_TOOL_HANDLERS ELSE TOOL_HANDLERS

\* definitions the loops guard against: no "tool_name" entry, a None or an
\* empty name, a name without a handler
OddDefs ==
  {PyDict([description |-> Str("description")]),
   PyDict([tool_name |-> PyNone, description |-> Str("description")]),
   PyDict([tool_name |-> PyStr(EmptyText), description |-> Str("description")]),
   ToolDef("get_last_trade")}

\* the list a loop iterates: the module's list, or that list with one entry
\* replaced by an odd definition or by a repetition of its first entry
DefLists(loop) ==
  {DefsOf(loop)}
  \cup {[DefsOf(loop) EXCEPT ![p] = d] :
          p \in DOMAIN DefsOf(loop), d \in OddDefs \cup {DefsOf(loop)[1]}}

NoHandler == "none"

\* a lookup that binds every known name to one and the same handler
HandlerGet_first(handlers, tool_name) ==
  IF tool_name.t = "str" /\ Len(tool_name.s) = 1
       /\ tool_name.s[1].lit \in handlers
  THEN "get_previous_day_bar"
  ELSE NoHandler

\* handlers.get(tool_name)
HandlerGet(handlers, tool_name) ==
  IF tool_name.t = "str" /\ Len(tool_name.s) = 1
       /\ tool_name.s[1].lit \in handlers
  THEN tool_name.s[1].lit
  ELSE NoHandler

\* the state of an entry point before its loop
Starting(loop, defs) ==
  [pc |-> "start", loop |-> loop, defs |-> defs, i |-> 1,
   registered |-> << >>, failed |-> {}, registered_count |-> 0,
   log |-> << >>]

\* a check of the credential that ends the process when it is not set
api_key_check_exit(r, key) ==
  IF ~Truthy(key) THEN [r EXCEPT !.pc = "exited"] ELSE r

\* if not os.environ.get("POLYGON_API_KEY"): two log records, nothing else
api_key_check(r, key) == r

\* the body of the try block: the runtime's registration call returns, or
\* raises
tool_registration(r, handler, returns) ==
  IF returns
  THEN Ok([r EXCEPT !.registered = Append(@, handler),
                    !.log = Append(@, "registered"),
                    !.registered_count = @ + 1])
  ELSE Raise(Exc("ValueError", L("registration failed")))

\* a loop whose registration call is not guarded
registration_uncaught(r, result) ==
  IF result.ok THEN result.v ELSE [r EXCEPT !.pc = "crashed"]

\* except Exception as e: logger.error("Failed to register tool ...")
registration_except(r, result) ==
  IF result.ok THEN result.v
  ELSE [r EXCEPT !.failed = @ \cup {r.i}, !.log = Append(@, "failed")]

\* an iteration that registers whatever definition it is given
loop_iteration_unguarded(r, returns) ==
  LET tool_name == Get(r.defs[r.i], "tool_name")
      handler_func == HandlerGet(HandlersOf(r.loop), tool_name)
      after == registration_except(r,
                 tool_registration(r, handler_func, returns))
  IN [after EXCEPT !.i = @ + 1]

\* one iteration of the loop; every way through it leaves one log record
loop_iteration(r, returns) ==
  LET tool_def_info == r.defs[r.i]
      tool_name == Get(tool_def_info, "tool_name")
      handler_func == HandlerGet(HandlersOf(r.loop), tool_name)
      after ==
        IF ~Truthy(tool_name)
        THEN [r EXCEPT !.log = Append(@, "no_name")]
        ELSE IF handler_func = NoHandler
        THEN [r EXCEPT !.log = Append(@, "no_handler")]
        ELSE registration_except(r,
               tool_registration(r, handler_func, returns))
  IN IF after.pc = "crashed" THEN after ELSE [after EXCEPT !.i = @ + 1]

\* main.py checks the credential and constructs the server; server.py and
\* the register_tools functions go straight to the loop
Startup ==
  /\ reg.pc = "start"
  /\ reg' = [(IF reg.loop = "main" THEN api_key_check(reg, env) ELSE reg)
               EXCEPT !.pc = IF @ = "start" THEN "loop" ELSE @]
  /\ UNCHANGED <<env, ohlcvKey, indKey, call, calls, clients>>

\* the loop takes the next definition; the runtime's registration call
\* returns or raises
RegisterTool ==
  /\ reg.pc = "loop"
  /\ reg.i <= Len(reg.defs)
  /\ \E returns \in BOOLEAN : reg' = loop_iteration(reg, returns)
  /\ UNCHANGED <<env, ohlcvKey, indKey, call, calls, clients>>

\* the end of the loop: the count is logged, server.py checks the
\* credential, and the tools are served
Serve ==
  /\ reg.pc = "loop"
  /\ reg.i > Len(reg.defs)
  /\ reg' = [(IF reg.loop = "server" THEN api_key_check(reg, env) ELSE reg)
               EXCEPT !.pc = IF @ = "loop" THEN "serving" ELSE @]
  /\ UNCHANGED <<env, ohlcvKey, indKey, call, calls, clients>>

\* the runtime calls a registered tool
CallTool ==
  /\ reg.pc = "serving"
  /\ call.pc = "idle"
  /\ \E n \in DOMAIN reg.registered :
       \E args \in ConcurrentArgsOf(reg.registered[n]) :
         call' = Entered(reg.registered[n], args)
  /\ UNCHANGED <<env, ohlcvKey, indKey, reg, calls, clients>>

Answer == RespondWith(ConcurrentOutcomes)

InitStartup ==
  /\ env \in EnvValues
  /\ ohlcvKey = env
  /\ indKey = env
  /\ call = Idle
  /\ \E loop \in Loops :
       reg \in {Starting(loop, defs) : defs \in DefLists(loop)}
  /\ calls = AllIdle
  /\ clients = << >>

NextStartup ==
  Startup \/ RegisterTool \/ Serve \/ CallTool \/ Answer \/ Return

SpecStartup == InitStartup /\ [][NextStartup]_vars

----------------------------------------------------------------------------
(* The environment changes after the modules were imported *)

\* what os.environ may hold for POLYGON_API_KEY later in the process
LaterEnvValues == EnvValues \cup {Str("KEY2")}

\* the process sets, changes or removes the environment variable; the
\* modules' POLYGON_API_KEY globals are not assigned again
Setenv ==
  /\ \E v \in LaterEnvValues \ {env} : env' = v
  /\ UNCHANGED <<ohlcvKey, indKey, call, reg, calls, clients>>

InvokeExplicit ==
  InvokeWith([adapter \in Adapters |-> ConcurrentArgsOf(adapter)])

NextEnviron == Setenv \/ InvokeExplicit \/ Answer \/ Return

SpecEnviron == Init /\ [][NextEnviron]_vars

----------------------------------------------------------------------------
(* Properties of the adapters *)

Done == call.pc = "done"
GotResponse == Done /\ call.outcome.net = "response"
HttpError == GotResponse /\ call.outcome.response.status_code >= 400
\* a 2xx response whose body decodes
Decoded == GotResponse /\ ~HttpError /\ json(call.outcome.response).ok
Body == json(call.outcome.response).v
ReturnsDict == Done /\ call.out.ok /\ call.out.v.t = "dict"
Result == call.out.v.f
\* the credential the adapter's module holds is unset or empty
NoCredential == KeyOf(call.adapter) \in {PyNone, PyStr(EmptyText)}
NamesStatus(text, code) == \E i \in 1..Len(text) : text[i] = [dec |-> code]

\* C1: with no credential configured (unset or empty) a call of any of the
\* eight adapters issues no request and returns a mapping whose only key is
\* `error`.
C1_NoCredentialNoRequest ==
  (call.pc # "idle" /\ NoCredential)
    => /\ Done
       /\ Len(call.requests) = 0
       /\ ReturnsDict
       /\ DOMAIN Result = {"error"}

C1_Witness ==
  /\ Done
  /\ call.adapter = "get_macd"
  /\ indKey = PyStr(EmptyText)
  /\ call.out = Ok(ConfigErrorIndicator)

\* C2: whatever the upstream outcome (transport failure, 4xx/5xx with any
\* body, 2xx with a body that is no JSON, no object, or lacks fields), a
\* finished call has returned a value and raised nothing.
C2_NeverRaises == Done => call.out.ok

C2_Witness ==
  /\ Done
  /\ call.adapter = "get_custom_bars"
  /\ call.outcome.net = "response"
  /\ call.outcome.response = [status_code |-> 200, text |-> Doc(PyNone)]
  /\ call.out = Ok(UnexpectedError)

\* C3: every value an adapter returns is a mapping, also when the decoded
\* 2xx body, or the first element of its `results`, is a list, a string, a
\* number or null.
C3_ReturnsMapping == (Done /\ call.out.ok) => call.out.v.t = "dict"

\* C4: with a credential configured, an invocation has issued exactly one
\* GET from the moment it awaits the response until it has returned,
\* whatever the outcome.
C4_ExactlyOneGet ==
  (call.pc # "idle" /\ ~NoCredential)
    => Len(call.requests) = 1

C4_Witness ==
  /\ Done
  /\ call.outcome.net = "failure"
  /\ call.adapter = "get_daily_ticker_summary"
  /\ Len(call.requests) = 1

\* C5: for every adapter a transport failure of the GET yields a mapping
\* with an `error` key and a `message` key holding a non-empty detail.
C5_ConnectionFailure ==
  (Done /\ call.outcome.net = "failure")
    => /\ ReturnsDict
       /\ {"error", "message"} \subseteq DOMAIN Result
       /\ Result["message"].t = "str"
       /\ Len(Result["message"].s) > 0

\* C6: for every adapter a 4xx/5xx response yields a mapping whose `error`
\* names the status code and whose `message` is the response body text.
C6_HttpErrorResult ==
  HttpError
    => /\ ReturnsDict
       /\ {"error", "message"} \subseteq DOMAIN Result
       /\ Result["error"].t = "str"
       /\ NamesStatus(Result["error"].s,
                      call.outcome.response.status_code)
       /\ Result["message"] = PyStr(call.outcome.response.text)

\* C7: get_daily_ticker_summary checks the HTTP status before it decodes the
\* body: a 4xx/5xx response whose body is no JSON is returned as the HTTP
\* error with the status code and the raw body text.
C7_StatusBeforeJson ==
  (HttpError /\ call.adapter = "get_daily_ticker_summary"
     /\ ~json(call.outcome.response).ok)
    => call.out =
         Ok(PyDict([error |-> PyStr(L("Polygon API error: ")
                               \o Dec(call.outcome.response.status_code)),
                    message |-> PyStr(call.outcome.response.text)]))

\* C8: for every adapter a 2xx body {"status":"ERROR","error":E} yields a
\* mapping with `error` equal to E and `details` equal to the decoded body.
C8_UpstreamErrorText ==
  (Decoded /\ Body.t = "dict" /\ DOMAIN Body.f = {"status", "error"}
     /\ Body.f["status"] = Str("ERROR") /\ Body.f["error"].t = "str"
     /\ Len(Body.f["error"].s) > 0)
    => /\ ReturnsDict
       /\ {"error", "details"} \subseteq DOMAIN Result
       /\ Result["error"] = Body.f["error"]
       /\ Result["details"] = Body

\* C9: for every adapter a 2xx body whose status is absent or not "OK"
\* yields `details` equal to the decoded body and `error` taken from the
\* body's error field, else from its message field, else a generic phrase
\* that is neither empty nor null.
C9_NonOkStatus ==
  (Decoded /\ Body.t = "dict" /\ Get(Body, "status") # Str("OK"))
    => /\ ReturnsDict
       /\ {"error", "details"} \subseteq DOMAIN Result
       /\ Result["details"] = Body
       /\ Truthy(Get(Body, "error")) => Result["error"] = Body.f["error"]
       /\ ("error" \notin DOMAIN Body.f /\ "message" \in DOMAIN Body.f)
            => Result["error"] = Body.f["message"]
       /\ ("error" \notin DOMAIN Body.f /\ "message" \notin DOMAIN Body.f)
            => Truthy(Result["error"])

\* a 2xx body {"status":"OK","results":[item],"resultsCount":1}
OneItemBody ==
  /\ Decoded
  /\ Body.t = "dict"
  /\ DOMAIN Body.f = {"status", "results", "resultsCount"}
  /\ Body.f["status"] = Str("OK")
  /\ Body.f["resultsCount"] = PyInt(1)
  /\ Body.f["results"].t = "list"
  /\ Len(Body.f["results"].items) = 1

\* C10: get_previous_day_bar, given a 2xx body with status "OK",
\* resultsCount 1 and a one-item `results` list, returns exactly that item
\* and not the envelope.
C10_UnwrapsSingleItem ==
  (OneItemBody /\ call.adapter = "get_previous_day_bar")
    => call.out = Ok(Body.f["results"].items[1])

C10_Witness ==
  /\ OneItemBody
  /\ call.adapter = "get_previous_day_bar"
  /\ Body.f["results"].items = <<Bar>>
  /\ call.out = Ok(Bar)

\* a 2xx body {"status":"OK","results":[],"resultsCount":0}
EmptyResultBody ==
  /\ Decoded
  /\ Body = Envelope(Str("OK"), Absent, Absent, PyList(<< >>), PyInt(0))

\* C11 as stated: for any adapter, a 2xx body with status "OK", an empty
\* `results` list and resultsCount 0 yields a mapping with a `message` key
\* and no `error` key.
C11_EmptyResultMessage ==
  EmptyResultBody
    => /\ ReturnsDict
       /\ "message" \in DOMAIN Result
       /\ "error" \notin DOMAIN Result

\* C11 as amended: for any adapter that body yields a mapping with no `error`
\* key; get_previous_day_bar returns a mapping whose only key is `message`,
\* and each of the other seven adapters returns the decoded body unchanged.
C11_EmptyResultNoError ==
  EmptyResultBody
    => /\ ReturnsDict
       /\ "error" \notin DOMAIN Result
       /\ call.adapter = "get_previous_day_bar" => DOMAIN Result = {"message"}
       /\ call.adapter # "get_previous_day_bar" => call.out.v = Body

C11_Witness ==
  /\ EmptyResultBody
  /\ call.adapter = "get_previous_day_bar"
  /\ call.out = Ok(no_data_message(call.args))

----------------------------------------------------------------------------
(* Properties of the requests *)

\* the invocation has sent a request
Sent == call.pc # "idle" /\ Len(call.requests) > 0
Request == call.requests[1]

\* the query parameter that carries an input of the adapter
ParamKey(input) ==
  CASE input = "include_otc" -> "includeOTC"
    [] input = "timestamp_gte" -> "timestamp.gte"
    [] input = "timestamp_gt" -> "timestamp.gt"
    [] input = "timestamp_lte" -> "timestamp.lte"
    [] input = "timestamp_lt" -> "timestamp.lt"
    [] OTHER -> input

BooleanInputs == {"adjusted", "include_otc", "expand_underlying"}

\* C12: every boolean-valued input (adjusted, include_otc,
\* expand_underlying) given as True or False is in the outgoing parameters
\* as exactly the string "true" or "false".
C12_BooleansAsLowercaseStrings ==
  Sent =>
    \A input \in BooleanInputs \cap DOMAIN call.args :
      call.args[input].t = "bool" =>
        /\ ParamKey(input) \in DOMAIN Request.params
        /\ Request.params[ParamKey(input)] =
             IF call.args[input].b THEN Str("true") ELSE Str("false")

C12_Witness ==
  /\ Sent
  /\ call.adapter = "get_rsi"
  /\ call.args.adjusted = PyBool(FALSE)
  /\ call.args.expand_underlying = PyBool(TRUE)
  /\ Request.params["adjusted"] = Str("false")
  /\ Request.params["expand_underlying"] = Str("true")

\* C13: every optional input passed as None has no entry at all in the
\* outgoing parameters.
C13_NoneInputsAbsent ==
  Sent =>
    \A input \in DOMAIN call.args :
      call.args[input] = PyNone => ParamKey(input) \notin DOMAIN Request.params

\* C14 as stated: every outgoing request carries the credential as an entry
\* of its query parameters.
C14_CredentialInParams ==
  Sent => \E k \in DOMAIN Request.params :
            Request.params[k] = KeyOf(call.adapter)

\* C14 as amended: every outgoing request carries the credential: the four
\* OHLCV adapters as the query parameter apiKey, the four indicator adapters
\* as the header "Authorization: Bearer <credential>" and in no query
\* parameter.
C14_CredentialAttached ==
  Sent =>
    IF call.adapter \in OhlcvAdapters
    THEN /\ "apiKey" \in DOMAIN Request.params
         /\ Request.params["apiKey"] = KeyOf(call.adapter)
    ELSE /\ "Authorization" \in DOMAIN Request.headers
         /\ Request.headers["Authorization"]
              = PyStr(L("Bearer ") \o KeyOf(call.adapter).s)
         /\ \A k \in DOMAIN Request.params :
              Request.params[k] # KeyOf(call.adapter)

C14_Witness ==
  /\ Sent
  /\ call.adapter = "get_macd"
  /\ Request.headers = [Authorization |-> PyStr(L("Bearer ") \o L("KEY1"))]
  /\ "apiKey" \notin DOMAIN Request.params

WindowIndicators == {"get_sma", "get_ema", "get_rsi"}
MacdWindows == {"short_window", "long_window", "signal_window"}

\* a dict without some of its keys
WithoutKeys(d, ks) == [k \in DOMAIN d \ ks |-> d[k]]

\* two URLs that differ at most in the path segment naming the indicator
SameButSegment(url1, seg1, url2, seg2) ==
  /\ Len(url1) = Len(url2)
  /\ \A i \in 1..Len(url1) :
       url1[i] # url2[i] => url1[i] = L(seg1)[1] /\ url2[i] = L(seg2)[1]

\* the arguments of a get_macd call as get_sma would take them
AsWindowArgs(args) ==
  [k \in (DOMAIN args \ MacdWindows) \cup {"window"} |->
     IF k = "window" THEN PyNone ELSE args[k]]

\* C20: get_sma, get_ema and get_rsi, given the same explicit arguments,
\* send identical query parameters (and headers) to URLs that differ only in
\* the indicator's path segment; get_macd sends the same except that the
\* single window entry is replaced by short_window, long_window and
\* signal_window.
C20_SameParamsModuloSegment ==
  Sent =>
    /\ call.adapter \in WindowIndicators =>
         \A other \in WindowIndicators :
           LET r == BuildRequest(other, call.args, KeyOf(other))
           IN /\ r.params = Request.params
              /\ r.headers = Request.headers
              /\ SameButSegment(Request.url, IndicatorSegment(call.adapter),
                                r.url, IndicatorSegment(other))
    /\ call.adapter = "get_macd" =>
         \A other \in WindowIndicators :
           LET r == BuildRequest(other, AsWindowArgs(call.args), KeyOf(other))
           IN /\ WithoutKeys(Request.params, MacdWindows) = r.params
              /\ "window" \notin DOMAIN Request.params
              /\ \A w \in MacdWindows :
                   IF call.args[w] = PyNone
                   THEN w \notin DOMAIN Request.params
                   ELSE Request.params[w] = call.args[w]
              /\ r.headers = Request.headers
              /\ SameButSegment(Request.url, "macd",
                                r.url, IndicatorSegment(other))

C20_Witness ==
  /\ Sent
  /\ call.adapter = "get_ema"
  /\ call.args.window = PyInt(50)
  /\ call.args.timestamp_gte # PyNone
  /\ "timestamp.gte" \in DOMAIN Request.params
  /\ Request.params = get_rsi_params(call.args)

----------------------------------------------------------------------------
(* Properties of invocations side by side *)

\* what the invocation in a slot does when it runs alone
RunsAsAlone(c) ==
  /\ c.pc # "idle" =>
       c.requests = IF c.client = "none" THEN << >>
                    ELSE <<BuildRequest(c.adapter, c.args, KeyOf(c.adapter))>>
  /\ c.pc = "awaiting" => c.client = "open"
  /\ c.pc = "done" =>
       c.out = IF c.client = "none" THEN Ok(ConfigError(c.adapter))
               ELSE AfterGet(c.adapter, c.args, c.outcome)

\* C18: in every interleaving of invocations each invocation sends the
\* request and returns the result it would alone, and a step of one
\* invocation changes nothing of another.
C18_Isolation ==
  /\ [](\A slot \in Slots : RunsAsAlone(calls[slot]))
  /\ [][\A slot \in Slots :
          calls'[slot] # calls[slot] =>
            \A other \in Slots \ {slot} : calls'[other] = calls[other]]_vars

C18_Witness ==
  /\ calls["a"].pc = "done" /\ calls["b"].pc = "done"
  /\ calls["a"].adapter = "get_custom_bars" /\ calls["b"].adapter = "get_rsi"
  /\ calls["a"].outcome.net = "response" /\ calls["b"].outcome.net = "failure"
  /\ Len(clients) = 2

OpenClients == {id \in DOMAIN clients : clients[id].state = "open"}

\* C19: an invocation that opened a client has closed it when it returns,
\* whichever way it leaves (with data, or through any of the except
\* clauses after an HTTP error, a transport failure or a bad body); every
\* open client belongs to exactly one invocation still awaiting its GET, so
\* none stays open once the invocations are over and none is shared.
C19_ClientsClosed ==
  /\ \A slot \in Slots :
       /\ calls[slot].pc = "done" =>
            /\ calls[slot].client \in {"none", "closed"}
            /\ calls[slot].client = "closed" <=> Len(calls[slot].requests) > 0
       /\ calls[slot].pc = "awaiting" =>
            Cardinality({id \in OpenClients : clients[id].owner = slot}) = 1
  /\ \A id \in OpenClients : calls[clients[id].owner].pc = "awaiting"

C19_Witness ==
  /\ calls["a"].pc = "done"
  /\ calls["a"].adapter = "get_macd"
  /\ calls["a"].outcome.net = "failure"
  /\ calls["a"].client = "closed"
  /\ calls["b"].pc = "idle"
  /\ Len(clients) = 3
  /\ OpenClients = {}

----------------------------------------------------------------------------
(* Properties of the registration *)

\* a definition with a non-empty name for which the loop's module has a
\* handler
WellFormed(loop, def) ==
  /\ "tool_name" \in DOMAIN def.f
  /\ def.f["tool_name"].t = "str"
  /\ def.f["tool_name"].s # EmptyText
  /\ \E h \in HandlersOf(loop) : def.f["tool_name"] = Str(h)

RECURSIVE RegisteredUpTo(_, _)
\* the names of the well-formed definitions among the first n whose
\* registration did not raise, in the order of the list
RegisteredUpTo(r, n) ==
  IF n = 0 THEN << >>
  ELSE IF WellFormed(r.loop, r.defs[n]) /\ n \notin r.failed
       THEN Append(RegisteredUpTo(r, n - 1),
                   r.defs[n].f["tool_name"].s[1].lit)
       ELSE RegisteredUpTo(r, n - 1)

InLoop == reg.pc \in {"start", "loop", "serving", "crashed", "exited"}

\* C15: in each of the four registration loops an exception raised by the
\* registration of one tool is caught and the loop goes on to the tools after
\* it: the loop never ends early, and once it is over every definition has
\* been attempted and the registered tools are exactly the well-formed ones
\* whose registration did not raise.
C15_LoopSurvivesFailures ==
  InLoop =>
    /\ reg.pc # "crashed"
    /\ reg.registered = RegisteredUpTo(reg, reg.i - 1)
    /\ reg.registered_count = Len(reg.registered)
    /\ reg.pc = "serving" => reg.i = Len(reg.defs) + 1

C15_Witness ==
  /\ InLoop
  /\ reg.pc = "serving"
  /\ reg.loop = "main"
  /\ reg.failed = {2}
  /\ reg.registered =
       <<"get_previous_day_bar", "get_daily_market_summary",
         "get_daily_ticker_summary">>

\* the environment variable is unset or empty
EnvUnset == env \in {PyNone, PyStr(EmptyText)}

\* C17: with the credential unset at start the entry point still goes
\* through its whole loop and registers what it registers with the
\* credential set (the well-formed definitions whose registration did not
\* raise), and every registered tool, when called, sends nothing and returns
\* the configuration error.
C17_StartsWithoutCredential ==
  (InLoop /\ EnvUnset) =>
    /\ reg.pc \notin {"exited", "crashed"}
    /\ reg.pc = "serving" =>
         /\ reg.registered = RegisteredUpTo(reg, Len(reg.defs))
         /\ call.pc = "done" =>
              /\ call.requests = << >>
              /\ call.out = Ok(ConfigError(call.adapter))

C17_Witness ==
  /\ InLoop /\ EnvUnset
  /\ reg.pc = "serving"
  /\ reg.loop = "server"
  /\ Len(reg.registered) = 4
  /\ call.pc = "done"
  /\ call.adapter = "get_custom_bars"
  /\ call.out = Ok(ConfigErrorOhlcv)

----------------------------------------------------------------------------
(* Properties of the classification order *)

\* a 2xx response whose body is a JSON object with status "OK"
OkBody == Decoded /\ Body.t = "dict" /\ Get(Body, "status") = Str("OK")

C22_OkNeverError ==
  (OkBody /\ call.adapter = "get_previous_day_bar")
    => /\ call.out.ok
       /\ \/ call.out.v = no_data_message(call.args)
          \/ call.out.v = Body
          \/ /\ Get(Body, "results").t = "list"
             /\ Len(Get(Body, "results").items) > 0
             /\ call.out.v = Get(Body, "results").items[1]

\* C23: for get_custom_bars, get_daily_market_summary and
\* get_daily_ticker_summary a 2xx response whose body has status "OK" is
\* returned as the full decoded body, no key added, removed or changed,
\* whatever the number of results.
C23_FullBodyUnchanged ==
  (OkBody /\ call.adapter \in {"get_custom_bars", "get_daily_market_summary",
                               "get_daily_ticker_summary"})
    => call.out = Ok(Body)

C23_Witness ==
  /\ OkBody
  /\ call.adapter = "get_daily_market_summary"
  /\ Body = Envelope(Str("OK"), Absent, Absent, PyList(<<Bar, Bar2>>),
                     PyInt(2))
  /\ call.out = Ok(Body)

----------------------------------------------------------------------------
(* Properties of the credential *)

\* the request carries the credential v: as apiKey for the OHLCV adapters, as
\* bearer token for the indicator adapters
CarriesCredential(request, v) ==
  \/ /\ "apiKey" \in DOMAIN request.params
     /\ request.params["apiKey"] = v
  \/ /\ "Authorization" \in DOMAIN request.headers
     /\ request.headers["Authorization"] = PyStr(L("Bearer ") \o v.s)

\* what every call does in a process that was started with the value v
UsesImported(v) ==
  call.pc # "idle" =>
    IF v \in {PyNone, PyStr(EmptyText)}
    THEN /\ call.requests = << >>
         /\ call.pc = "done"
         /\ call.out = Ok(ConfigError(call.adapter))
    ELSE /\ Len(call.requests) = 1
         /\ CarriesCredential(call.requests[1], v)

\* C24: the credential is read once, at import: in a process started
\* without it every later call returns the configuration error and sends
\* nothing, even after the variable is set, and in a process started with it
\* every call sends that value, even after the variable is changed or
\* removed.
C24_ReadOnceAtImport ==
  \A v \in EnvValues : (env = v) => [](UsesImported(v))

C24_Witness ==
  /\ env = Str("KEY2")
  /\ call.pc = "done"
  /\ call.adapter = "get_ema"
  /\ Len(call.requests) = 1
  /\ call.requests[1].headers["Authorization"]
       = PyStr(L("Bearer ") \o L("KEY1"))

----------------------------------------------------------------------------
(* Properties of the registration: skipped definitions and the count *)

Processed == 1..(reg.i - 1)
Returned == {j \in Processed : reg.log[j] = "registered"}

\* C25: in each registration loop a definition with no name, or with a name
\* no handler is bound to, is skipped (a warning, no registration) and the
\* loop goes on; the registered count is exactly the number of definitions
\* whose registration call returned, so never more than the number of
\* definitions processed.
C25_SkipsAndCounts ==
  (InLoop /\ reg.pc \in {"loop", "serving"}) =>
    /\ Len(reg.log) = reg.i - 1
    /\ \A j \in Processed :
         ~WellFormed(reg.loop, reg.defs[j])
           => reg.log[j] \in {"no_name", "no_handler"}
    /\ reg.registered_count = Cardinality(Returned)
    /\ Len(reg.registered) = Cardinality(Returned)
    /\ reg.registered_count <= reg.i - 1
    /\ reg.pc = "serving" => reg.i = Len(reg.defs) + 1

C25_Witness ==
  /\ InLoop
  /\ reg.pc = "serving"
  /\ reg.loop = "ohlcv_register_tools"
  /\ reg.log = <<"no_name", "registered", "failed", "registered">>
  /\ reg.registered_count = 2

====
